---- MODULE Spec2Model ----
(***************************************************************************)
(* Model of the study planner pipeline of src/planner_logic.py:            *)
(* extract_user_data -> compute_study_load (calculate_days_until_deadline) *)
(* -> generate_timetable, wrapped by build_study_plan.                     *)
(*                                                                         *)
(* Numbers.  Python floats are modelled by exact scaled integers:          *)
(*   available_hours_per_day     in hundredths of an hour,                 *)
(*   hours_per_day, total_hours_weekly, duration_hours  in tenths,         *)
(*   priority_score, priority    in hundredths,                            *)
(*   a weight                    as a fraction <<num, den>>.               *)
(* round(x, k) is Python's round: nearest, an exact tie to the even digit. *)
(*                                                                         *)
(* Time.  The wall clock is counted in ticks, TicksPerDay ticks a day;     *)
(* tick t lies on calendar day t \div TicksPerDay and is exactly midnight  *)
(* when t % TicksPerDay = 0.  A date string parses to the midnight tick of *)
(* its day.  One request is far shorter than a tick, so the clock passes   *)
(* at most one tick boundary while a request runs.                         *)
(*                                                                         *)
(* Dictionaries are functions whose DOMAIN is the set of keys present; an  *)
(* insertion-ordered dict keyed by subject name is a sequence of           *)
(* <<key, value>> records (DictPut).                                       *)
(***************************************************************************)
EXTENDS Integers, Sequences, FiniteSets, TLC

VARIABLES
    user_input,   \* the request handed to build_study_plan
    now,          \* the wall clock, in ticks
    pc,           \* "idle" before the call, "done" after it returned
    reads,        \* the values datetime.now() returned, in call order
    result        \* what build_study_plan returned

vars == <<user_input, now, pc, reads, result>>

---------------------------------------------------------------------------
(* Bounds of the model *)

MaxSubjects == 3
MaxDay == 3
MaxTick == 3
TicksPerDay == 2

---------------------------------------------------------------------------
(* Generic helpers *)

Has(d, k) == k \in DOMAIN d

Get(d, k, default) == IF k \in DOMAIN d THEN d[k] ELSE default

Max(a, b) == IF a >= b THEN a ELSE b

Abs(a) == IF a >= 0 THEN a ELSE 0 - a

Range(s) == {s[i] : i \in DOMAIN s}

RECURSIVE SumSeq(_)
SumSeq(s) == IF s = <<>> THEN 0 ELSE Head(s) + SumSeq(Tail(s))

RECURSIVE ProdSeq(_)
ProdSeq(s) == IF s = <<>> THEN 1 ELSE Head(s) * ProdSeq(Tail(s))

Ok(v) == [ok |-> TRUE, val |-> v]

Raise(exc, msg) == [ok |-> FALSE, exc |-> exc, msg |-> msg]

\* d[key] = val on an insertion-ordered dict: an existing key keeps its
\* position and takes the new value, a new key goes last.
DictPut(d, key, val) ==
    IF \E j \in DOMAIN d : d[j].key = key
    THEN [j \in DOMAIN d |-> IF d[j].key = key THEN [key |-> key, val |-> val] ELSE d[j]]
    ELSE Append(d, [key |-> key, val |-> val])

\* round(n / d) for d > 0: the nearest integer, an exact tie to the even one.
RoundFloor(n, d) == n \div d

round(n, d) ==
    LET q == n \div d
        r == n % d
    IN  IF 2 * r < d THEN q
        ELSE IF 2 * r > d THEN q + 1
        ELSE IF q % 2 = 0 THEN q ELSE q + 1

---------------------------------------------------------------------------
(* Deadline Clock *)

\* The calendar: DateStr[i] is the date string of day i - 1.
DateStr ==
    << "2026-01-01", "2026-01-02", "2026-01-03", "2026-01-04",
       "2026-01-05", "2026-01-06", "2026-01-07", "2026-01-08" >>

\* datetime.strptime(s, "%Y-%m-%d"): the midnight tick of the day, or
\* ValueError for a string that is no date.
strptime(s) ==
    IF \E i \in DOMAIN DateStr : DateStr[i] = s
    THEN Ok(((CHOOSE i \in DOMAIN DateStr : DateStr[i] = s) - 1) * TicksPerDay)
    ELSE Raise("ValueError", "time data does not match format")

\* (deadline - today).days, floored, then max(days_left, 1).
DaysNoClamp(deadline_str, today) ==
    (strptime(deadline_str).val - today) \div TicksPerDay

calculate_days_until_deadline(deadline_str, today) ==
    LET days_left == (strptime(deadline_str).val - today) \div TicksPerDay
    IN  Max(days_left, 1)

---------------------------------------------------------------------------
(* Extraction *)

\* subject['difficulty'] = 'medium' when the key is absent.
WithDefaultDifficulty(subject) ==
    IF Has(subject, "difficulty") THEN subject
    ELSE subject @@ ("difficulty" :> "medium")

\* The index of the first subject without name or deadline, 0 if none.
FirstInvalid(subjects) ==
    LET bad == {i \in DOMAIN subjects :
                    ~Has(subjects[i], "name") \/ ~Has(subjects[i], "deadline")}
    IN  IF bad = {} THEN 0 ELSE CHOOSE i \in bad : \A j \in bad : i <= j

\* float(x) of a number x is x.
extract_user_data(ui) ==
    IF ~Has(ui, "subjects")
    THEN Raise("ValueError", "Missing required field: subjects")
    ELSE IF ~Has(ui, "available_hours_per_day")
    THEN Raise("ValueError", "Missing required field: available_hours_per_day")
    ELSE IF FirstInvalid(ui.subjects) # 0
    THEN Raise("ValueError", "Subject missing required fields")
    ELSE Ok([subjects |->
                [i \in DOMAIN ui.subjects |-> WithDefaultDifficulty(ui.subjects[i])],
             available_hours_per_day |-> ui.available_hours_per_day,
             study_preferences |-> Get(ui, "study_preferences", <<>>)])

\* The caller's request after the call: extract_user_data writes the default
\* difficulty into the caller's own subject dicts, one by one, up to the
\* first subject it rejects.
Extracted(ui) ==
    IF ~Has(ui, "subjects") \/ ~Has(ui, "available_hours_per_day") THEN ui
    ELSE [ui EXCEPT !.subjects =
            [i \in DOMAIN ui.subjects |->
                IF FirstInvalid(ui.subjects) = 0 \/ i < FirstInvalid(ui.subjects)
                THEN WithDefaultDifficulty(ui.subjects[i])
                ELSE ui.subjects[i]]]

---------------------------------------------------------------------------
(* Priority Scorer and Load Allocator *)

\* str.lower() on the difficulty strings of the model.
lower(s) ==
    CASE s = "HARD" -> "hard"
      [] s = "Medium" -> "medium"
      [] s = "EASY" -> "easy"
      [] OTHER -> s

\* difficulty_weights, in halves: easy 1, medium 1.5, hard 2.
difficulty_weights == [easy |-> 2, medium |-> 3, hard |-> 4]

UrgencyScale == 10

\* weight = difficulty_weights[difficulty] * (1 + (1 / max(days_left, 1)) * 10)
\*        = (w2 / 2) * (days + 10) / days, as the fraction <<num, den>>.
WeightInverted(difficulty, days_left) ==
    <<difficulty_weights[difficulty] * (1 + Max(days_left, 1) * UrgencyScale), 2>>

Weight(difficulty, days_left) ==
    <<difficulty_weights[difficulty] * (Max(days_left, 1) + UrgencyScale),
      2 * Max(days_left, 1)>>

\* The index of the first subject whose loop iteration raises, 0 if none.
BadDeadline(s) == ~strptime(s.deadline).ok

BadDifficulty(s) == lower(s.difficulty) \notin DOMAIN difficulty_weights

FirstRaise(subjects) ==
    LET bad == {i \in DOMAIN subjects : BadDeadline(subjects[i]) \/ BadDifficulty(subjects[i])}
    IN  IF bad = {} THEN 0 ELSE CHOOSE i \in bad : \A j \in bad : i <= j

\* How many times compute_study_load reads datetime.now(): once per subject
\* reached; strptime raises before the read, the weight lookup after it.
NumReads(subjects) ==
    LET f == FirstRaise(subjects)
    IN  IF f = 0 THEN Len(subjects)
        ELSE IF BadDeadline(subjects[f]) THEN f - 1 ELSE f

\* One entry of study_load from a subject's weight, the weights <<num, den>>
\* of all subjects and the daily budget (hundredths of an hour).
\*   share  = (weight / total_weight) * available_hours  = sn / sd  tenths
HoursNum(w, ws, available_hours) ==
    (w[1] * (ProdSeq([j \in DOMAIN ws |-> ws[j][2]]) \div w[2])) * available_hours

HoursDen(ws) ==
    10 * SumSeq([j \in DOMAIN ws |->
                    ws[j][1] * (ProdSeq([k \in DOMAIN ws |-> ws[k][2]]) \div ws[j][2])])

StudyLoadEntryRoundFirst(p, ws, available_hours) ==
    [hours_per_day |-> round(HoursNum(p.weight, ws, available_hours), HoursDen(ws)),
     days_until_deadline |-> p.days_left,
     total_hours_weekly |->
         7 * round(HoursNum(p.weight, ws, available_hours), HoursDen(ws)),
     difficulty |-> p.difficulty,
     priority_score |-> round(100 * p.weight[1], p.weight[2])]

StudyLoadEntry(p, ws, available_hours) ==
    [hours_per_day |-> round(HoursNum(p.weight, ws, available_hours), HoursDen(ws)),
     days_until_deadline |-> p.days_left,
     total_hours_weekly |->
         round(7 * HoursNum(p.weight, ws, available_hours), HoursDen(ws)),
     difficulty |-> p.difficulty,
     priority_score |-> round(100 * p.weight[1], p.weight[2])]

RECURSIVE FillLoad(_, _, _, _)
FillLoad(load, ps, ws, available_hours) ==
    IF ps = <<>> THEN load
    ELSE FillLoad(DictPut(load, Head(ps).name,
                          StudyLoadEntry(Head(ps), ws, available_hours)),
                  Tail(ps), ws, available_hours)

\* clocks[i] is what datetime.now() returns in the i-th loop iteration.
compute_study_load(subjects, available_hours, clocks) ==
    LET f == FirstRaise(subjects)
    IN  IF f # 0
        THEN IF BadDeadline(subjects[f])
             THEN strptime(subjects[f].deadline)
             ELSE Raise("KeyError", lower(subjects[f].difficulty))
        ELSE LET subject_priorities ==
                     [i \in DOMAIN subjects |->
                        LET days_left ==
                                calculate_days_until_deadline(subjects[i].deadline, clocks[i])
                            difficulty == lower(subjects[i].difficulty)
                        IN  [name |-> subjects[i].name,
                             weight |-> Weight(difficulty, days_left),
                             days_left |-> days_left,
                             difficulty |-> difficulty]]
                 ws == [i \in DOMAIN subjects |-> subject_priorities[i].weight]
             IN  Ok(FillLoad(<<>>, subject_priorities, ws, available_hours))

---------------------------------------------------------------------------
(* Timetable Builder *)

days == <<"Monday", "Tuesday", "Wednesday", "Thursday", "Friday", "Saturday", "Sunday">>

DefaultBreak == 15

\* list.sort(key = priority, reverse = True): descending and stable, so an
\* element goes after every element whose priority is >= its own.
InsertDescUnstable(sorted, x) ==
    LET k == Cardinality({i \in DOMAIN sorted : sorted[i].priority > x.priority})
    IN  SubSeq(sorted, 1, k) \o <<x>> \o SubSeq(sorted, k + 1, Len(sorted))

InsertDesc(sorted, x) ==
    LET k == Cardinality({i \in DOMAIN sorted : sorted[i].priority >= x.priority})
    IN  SubSeq(sorted, 1, k) \o <<x>> \o SubSeq(sorted, k + 1, Len(sorted))

RECURSIVE SortFrom(_, _)
SortFrom(sorted, rest) ==
    IF rest = <<>> THEN sorted ELSE SortFrom(InsertDesc(sorted, Head(rest)), Tail(rest))

sort_desc(s) == SortFrom(<<>>, s)

\* preferred_times[len(daily_schedule) % len(preferred_times)], 0-based in
\* the code, 1-based here; placed = len(daily_schedule).
TimeSlotOffByOne(preferred_times, placed) ==
    preferred_times[((placed + 1) % Len(preferred_times)) + 1]

TimeSlot(preferred_times, placed) ==
    preferred_times[(placed % Len(preferred_times)) + 1]

generate_timetable(study_load, preferences) ==
    LET preferred_times == Get(preferences, "preferred_times", <<"morning">>)
        break_duration == Get(preferences, "break_duration", DefaultBreak)
        daily_schedule ==
            [i \in DOMAIN study_load |->
                [subject |-> study_load[i].key,
                 duration_hours |-> study_load[i].val.hours_per_day,
                 time_slot |-> TimeSlot(preferred_times, i - 1),
                 break_after_minutes |-> break_duration,
                 priority |-> study_load[i].val.priority_score]]
    IN  IF study_load # <<>> /\ Len(preferred_times) = 0
        THEN Raise("ZeroDivisionError", "integer modulo by zero")
        ELSE Ok([weekly_schedule |->
                    [d \in Range(days) |-> sort_desc(daily_schedule)],
                 study_sessions |->
                    [i \in DOMAIN study_load |->
                        [subject |-> study_load[i].key,
                         total_hours_weekly |-> study_load[i].val.total_hours_weekly,
                         sessions_per_week |-> 7,
                         average_session_duration |-> study_load[i].val.hours_per_day]]])

---------------------------------------------------------------------------
(* Plan Orchestrator *)

\* except ValueError instead of except Exception: anything else escapes.
FailureValueErrorOnly(e) ==
    IF e.exc = "ValueError"
    THEN [success |-> FALSE, error |-> e.msg, message |-> "Failed to generate study plan"]
    ELSE [raised |-> e.exc, error |-> e.msg]

Failure(e) ==
    [success |-> FALSE, error |-> e.msg, message |-> "Failed to generate study plan"]

build_study_plan(ui, clocks) ==
    LET user_data == extract_user_data(ui)
    IN  IF ~user_data.ok THEN Failure(user_data)
        ELSE LET study_load == compute_study_load(user_data.val.subjects,
                                                  user_data.val.available_hours_per_day,
                                                  clocks)
             IN  IF ~study_load.ok THEN Failure(study_load)
                 ELSE LET timetable == generate_timetable(study_load.val,
                                                          user_data.val.study_preferences)
                      IN  IF ~timetable.ok THEN Failure(timetable)
                          ELSE [success |-> TRUE,
                                study_load |-> study_load.val,
                                timetable |-> timetable.val,
                                metadata |->
                                    [total_subjects |-> Len(user_data.val.subjects),
                                     planning_period |-> "1 week",
                                     total_study_hours_daily |->
                                         user_data.val.available_hours_per_day]]

\* The number of clock reads the request makes.
ReadsOf(ui) ==
    LET user_data == extract_user_data(ui)
    IN  IF user_data.ok THEN NumReads(user_data.val.subjects) ELSE 0

---------------------------------------------------------------------------
(* Actions *)

\* The wall clock advances while no request runs.
Tick ==
    /\ pc = "idle"
    /\ now < MaxTick
    /\ now' = now + 1
    /\ UNCHANGED <<user_input, pc, reads, result>>

\* One call of build_study_plan.  The clock either stays put during the call
\* (k = 0) or ticks once just before the k-th read of datetime.now().
BuildStudyPlan ==
    /\ pc = "idle"
    /\ \E k \in 0..ReadsOf(user_input) :
          /\ k # 0 => now < MaxTick
          /\ LET clocks == [i \in 1..ReadsOf(user_input) |->
                               IF k # 0 /\ i >= k THEN now + 1 ELSE now]
             IN  /\ reads' = clocks
                 /\ result' = build_study_plan(user_input, clocks)
          /\ now' = IF k = 0 THEN now ELSE now + 1
    /\ pc' = "done"
    /\ user_input' = Extracted(user_input)

Next == Tick \/ BuildStudyPlan

---------------------------------------------------------------------------
(* Requests *)

SeqsUpTo(S, n) == UNION {[1..k -> S] : k \in 0..n}

Date(d) == DateStr[d + 1]

AllNames == <<"Math", "Physics", "Chemistry", "History", "Biology">>

NoResult == [pending |-> TRUE]

Start ==
    /\ now = 0
    /\ pc = "idle"
    /\ reads = <<>>
    /\ result = NoResult

\* Requests of every shape the orchestrator has to survive: a well-formed
\* subject, one without difficulty, one in upper case, and one for each way
\* a subject can be broken; each top-level key present or absent.
SubjectShapes ==
    { [name |-> "Math", deadline |-> Date(MaxDay), difficulty |-> "easy"],
      [name |-> "Physics", deadline |-> Date(MaxDay)],
      [name |-> "Math", deadline |-> Date(MaxDay), difficulty |-> "HARD"],
      [name |-> "Math", deadline |-> Date(MaxDay), difficulty |-> "impossible"],
      [name |-> "Math", deadline |-> "next week", difficulty |-> "easy"],
      [deadline |-> Date(MaxDay), difficulty |-> "easy"],
      [name |-> "Math", difficulty |-> "easy"] }

PrefShapes ==
    { <<>>,
      [break_duration |-> 5],
      [preferred_times |-> <<>>],
      [preferred_times |-> <<"morning", "evening">>, break_duration |-> 10] }

Requests ==
    LET S == SeqsUpTo(SubjectShapes, MaxSubjects - 1)
    IN  {[available_hours_per_day |-> 600]}
        \cup {[subjects |-> s] : s \in S}
        \cup {[subjects |-> s, available_hours_per_day |-> 600] : s \in S}
        \cup {[subjects |-> s, available_hours_per_day |-> 600, study_preferences |-> p] :
                 s \in S, p \in PrefShapes}

Init == user_input \in Requests /\ Start

Spec == Init /\ [][Next]_vars

\* Requests for the load allocator: up to MaxSubjects subjects with distinct
\* names, every difficulty, two deadlines, a small and a usual daily budget
\* (0.44 h and 6 h).
LoadSubjects(n) ==
    {s \in [1..n -> [name : Range(AllNames),
                     deadline : {Date(MaxDay - 1), Date(MaxDay)},
                     difficulty : {"easy", "medium", "hard"}]] :
        \A i \in 1..n : s[i].name = AllNames[i]}

LoadRequests ==
    {[subjects |-> s, available_hours_per_day |-> h] :
        s \in UNION {LoadSubjects(n) : n \in 0..MaxSubjects}, h \in {44, 600}}

InitLoad == user_input \in LoadRequests /\ Start

SpecLoad == InitLoad /\ [][Next]_vars

\* Requests for the timetable builder: up to MaxSubjects subjects, each under
\* its own name or under the first subject's name again, easy or hard, due
\* the same day (so that priorities tie), with one to three preferred times.
TableSubjects(n) ==
    {s \in [1..n -> [name : Range(AllNames),
                     deadline : {Date(MaxDay)},
                     difficulty : {"easy", "hard"}]] :
        \A i \in 1..n : s[i].name \in {AllNames[1], AllNames[i]}}

TableRequests ==
    LET S == UNION {TableSubjects(n) : n \in 0..MaxSubjects}
    IN  {[subjects |-> s, available_hours_per_day |-> 600] : s \in S}
        \cup {[subjects |-> s, available_hours_per_day |-> 600,
               study_preferences |-> [preferred_times |-> p, break_duration |-> 10]] :
                 s \in S, p \in {<<"evening">>,
                                <<"morning", "evening">>,
                                <<"morning", "afternoon", "evening">>}}

InitTable == user_input \in TableRequests /\ Start

SpecTable == InitTable /\ [][Next]_vars

\* Requests for the deadline clock: subjects with distinct names, every
\* deadline from day 0 (already due when the clock starts) to day MaxDay.
ClockSubjects(n) ==
    {s \in [1..n -> [name : Range(AllNames),
                     deadline : {Date(d) : d \in 0..MaxDay},
                     difficulty : {"easy", "hard"}]] :
        \A i \in 1..n : s[i].name = AllNames[i]}

ClockRequests ==
    {[subjects |-> s, available_hours_per_day |-> 600] :
        s \in UNION {ClockSubjects(n) : n \in 0..(MaxSubjects - 1)}}

InitClock == user_input \in ClockRequests /\ Start

SpecClock == InitClock /\ [][Next]_vars

---------------------------------------------------------------------------
(* What the claims speak about *)

Done == pc = "done"

Succeeded == pc = "done" /\ Has(result, "success") /\ result.success

Valid(s) == Has(s, "name") /\ Has(s, "deadline")

\* The request is one on which, by reading it, some stage has to raise.
MustRaise(ui) ==
    \/ ~Has(ui, "subjects")
    \/ ~Has(ui, "available_hours_per_day")
    \/ \E i \in DOMAIN ui.subjects : ~Valid(ui.subjects[i])
    \/ \E i \in DOMAIN ui.subjects :
          \/ ui.subjects[i].deadline \notin Range(DateStr)
          \/ /\ Has(ui.subjects[i], "difficulty")
             /\ lower(ui.subjects[i].difficulty) \notin {"easy", "medium", "hard"}
    \/ /\ ui.subjects # <<>>
       /\ Has(ui, "study_preferences")
       /\ Has(ui.study_preferences, "preferred_times")
       /\ ui.study_preferences.preferred_times = <<>>

\* The subjects of the request, and the study_load entry a subject ends
\* up in.  Entries are keyed by name, so of several subjects with one name
\* the last one owns the entry.
Subjects == user_input.subjects

Owners == {i \in DOMAIN Subjects : \A j \in DOMAIN Subjects : Subjects[j].name = Subjects[i].name => j <= i}

Entry(i) ==
    LET load == result.study_load
    IN  load[CHOOSE k \in DOMAIN load : load[k].key = Subjects[i].name].val

Difficulty(i) == lower(Get(Subjects[i], "difficulty", "medium"))

UniqueNames == \A i, j \in DOMAIN Subjects : Subjects[i].name = Subjects[j].name => i = j

\* The sum of the reported hours_per_day, in tenths of an hour.
TotalHoursPerDay ==
    SumSeq([k \in DOMAIN result.study_load |-> result.study_load[k].val.hours_per_day])

\* The weights of the request's subjects as the allocator saw them.
WeightsSeen ==
    [i \in DOMAIN Subjects |->
        Weight(Difficulty(i), calculate_days_until_deadline(Subjects[i].deadline, reads[i]))]

\* The position of a subject name in study_load (allocator order).
Pos(name) ==
    CHOOSE k \in DOMAIN result.study_load : result.study_load[k].key = name

Schedule == result.timetable.weekly_schedule

\* preferred_times as the timetable builder reads it from the request.
PreferredTimes ==
    Get(Get(user_input, "study_preferences", <<>>), "preferred_times", <<"morning">>)

\* The calendar day of a date string, and of a clock value.
DayOf(s) == (CHOOSE d \in DOMAIN DateStr : DateStr[d] = s) - 1

Today(t) == t \div TicksPerDay

FailureEnvelope(r) ==
    /\ DOMAIN r = {"success", "error", "message"}
    /\ r.success = FALSE
    /\ r.message = "Failed to generate study plan"

SuccessEnvelope(r) ==
    /\ DOMAIN r = {"success", "study_load", "timetable", "metadata"}
    /\ r.success = TRUE

---------------------------------------------------------------------------
(* C2 *)

\* C2: a request whose subjects list is empty (available_hours_per_day
\* present) gets a failure result, never success = true.
C2_EmptySubjectsFail ==
    ( /\ Done
      /\ Has(user_input, "subjects")
      /\ Has(user_input, "available_hours_per_day")
      /\ user_input.subjects = <<>> )
    => (Has(result, "success") /\ result.success = FALSE)

---------------------------------------------------------------------------
(* C3 *)

\* C3: build_study_plan is all-or-nothing.  It always returns; on every
\* request on which a stage raises it returns exactly {success: false,
\* error, message: "Failed to generate study plan"}, and a result with
\* success = true carries study_load, timetable and metadata.
C3_AllOrNothing ==
    Done =>
        /\ FailureEnvelope(result) \/ SuccessEnvelope(result)
        /\ MustRaise(user_input) => FailureEnvelope(result)

\* A request that passed extraction and allocation and failed in the last
\* stage, the timetable builder, on an empty preferred_times.
C3_Witness ==
    /\ Done
    /\ MustRaise(user_input)
    /\ FailureEnvelope(result)
    /\ result.error = "integer modulo by zero"

---------------------------------------------------------------------------
(* C5 *)

\* C5: in every successful plan every subject's days_until_deadline is an
\* integer >= 1, also when the deadline is today or in the past.
C5_DaysAtLeastOne ==
    Succeeded =>
        \A k \in DOMAIN result.study_load :
            /\ result.study_load[k].val.days_until_deadline \in Int
            /\ result.study_load[k].val.days_until_deadline >= 1

\* A plan for a subject whose deadline day lies before the day of the read.
C5_Witness ==
    /\ Succeeded
    /\ \E i \in Owners :
          /\ DayOf(Subjects[i].deadline) < Today(reads[i])
          /\ Entry(i).days_until_deadline = 1

---------------------------------------------------------------------------
(* C4 *)

\* C4 as claimed: of two subjects with the same difficulty, the one with the
\* earlier deadline has the strictly greater priority_score.
C4_StrictlyGreater ==
    Succeeded =>
        \A i, j \in Owners :
            ( /\ Difficulty(i) = Difficulty(j)
              /\ DayOf(Subjects[i].deadline) < DayOf(Subjects[j].deadline) )
            => Entry(i).priority_score > Entry(j).priority_score

\* C4 as amended: of two subjects with the same difficulty, the one with the
\* earlier deadline has a priority_score greater than or equal to the
\* other's (and no more days_until_deadline than the other).
C4_Monotonic ==
    Succeeded =>
        \A i, j \in Owners :
            ( /\ Difficulty(i) = Difficulty(j)
              /\ DayOf(Subjects[i].deadline) < DayOf(Subjects[j].deadline) )
            => /\ Entry(i).priority_score >= Entry(j).priority_score
               /\ Entry(i).days_until_deadline <= Entry(j).days_until_deadline

\* Two subjects of one difficulty, the earlier one ahead by priority, the
\* clock having ticked between the two reads.
C4_Witness ==
    /\ Succeeded
    /\ \E i, j \in Owners :
          /\ Difficulty(i) = Difficulty(j)
          /\ DayOf(Subjects[i].deadline) < DayOf(Subjects[j].deadline)
          /\ reads[i] < reads[j]
          /\ Entry(i).priority_score > Entry(j).priority_score

---------------------------------------------------------------------------
(* C8 *)

\* C8: days_until_deadline is the difference in whole calendar days between
\* the deadline date and the current date, floored at 1, whatever the time
\* of day of the call.
C8_CalendarDays ==
    Succeeded =>
        \A i \in Owners :
            Entry(i).days_until_deadline
                = Max(DayOf(Subjects[i].deadline) - Today(reads[i]), 1)

---------------------------------------------------------------------------
(* C9 *)

\* C9: all subjects of one request are measured against one captured "now",
\* so that, also when the clock advances while the request runs, two
\* subjects with the same deadline get the same days_until_deadline.
C9_SameNow ==
    Succeeded =>
        \A i, j \in Owners :
            Subjects[i].deadline = Subjects[j].deadline
            => Entry(i).days_until_deadline = Entry(j).days_until_deadline

---------------------------------------------------------------------------
(* C1 *)

\* C1 as claimed: for a non-empty list of subjects (with distinct names) and
\* available_hours_per_day > 0, the reported hours_per_day sum to
\* available_hours_per_day within 0.1.
C1_SumWithinOneTenth ==
    ( /\ Succeeded
      /\ Subjects # <<>>
      /\ UniqueNames
      /\ user_input.available_hours_per_day > 0 )
    => Abs(10 * TotalHoursPerDay - user_input.available_hours_per_day) <= 10

\* C1 as amended: the sum is within 0.05 per subject of the budget, every
\* entry being rounded to one decimal on its own.
C1_SumWithinHalfTenthEach ==
    ( /\ Succeeded
      /\ Subjects # <<>>
      /\ UniqueNames
      /\ user_input.available_hours_per_day > 0 )
    => Abs(10 * TotalHoursPerDay - user_input.available_hours_per_day)
          <= 5 * Len(Subjects)

\* A plan whose hours_per_day miss the budget by more than 0.1.
C1_Witness ==
    /\ Succeeded
    /\ Subjects # <<>>
    /\ UniqueNames
    /\ user_input.available_hours_per_day > 0
    /\ Abs(10 * TotalHoursPerDay - user_input.available_hours_per_day) > 10

---------------------------------------------------------------------------
(* C10 *)

\* C10 as claimed: total_hours_weekly is round(7 * hours_per_day, 1) of the
\* reported, already rounded hours_per_day; in tenths, 7 * hours_per_day.
C10_WeeklyFromRounded ==
    Succeeded =>
        \A k \in DOMAIN result.study_load :
            result.study_load[k].val.total_hours_weekly
                = 7 * result.study_load[k].val.hours_per_day

\* C10 as amended: total_hours_weekly is round(7 * h, 1) of the unrounded
\* daily share h = (weight / total_weight) * available_hours, that is, the
\* tenth nearest to 7 * h.
C10_WeeklyFromUnrounded ==
    Succeeded =>
        \A i \in Owners :
            2 * Abs(Entry(i).total_hours_weekly * HoursDen(WeightsSeen)
                    - 7 * HoursNum(WeightsSeen[i], WeightsSeen,
                                   user_input.available_hours_per_day))
               <= HoursDen(WeightsSeen)

\* A plan with an entry whose weekly total is not 7 times its reported
\* daily hours.
C10_Witness ==
    /\ Succeeded
    /\ \E i \in Owners : Entry(i).total_hours_weekly # 7 * Entry(i).hours_per_day

---------------------------------------------------------------------------
(* C6 *)

\* C6: every day's list holds the subjects of study_load in order of
\* non-increasing priority, two sessions of equal priority in the order of
\* their subjects in study_load.
C6_SortedStable ==
    Succeeded =>
        \A d \in DOMAIN Schedule :
            /\ Len(Schedule[d]) = Len(result.study_load)
            /\ \A a, b \in DOMAIN Schedule[d] :
                  a < b =>
                    /\ Schedule[d][a].priority >= Schedule[d][b].priority
                    /\ Schedule[d][a].priority = Schedule[d][b].priority
                       => Pos(Schedule[d][a].subject) < Pos(Schedule[d][b].subject)

\* A day on which the sort moved a subject to the front and left two
\* subjects of equal priority next to each other.
C6_Witness ==
    /\ Succeeded
    /\ \E d \in DOMAIN Schedule :
          /\ Len(Schedule[d]) >= 3
          /\ Pos(Schedule[d][1].subject) # 1
          /\ \E a \in DOMAIN Schedule[d] :
                /\ a + 1 \in DOMAIN Schedule[d]
                /\ Schedule[d][a].priority = Schedule[d][a + 1].priority

---------------------------------------------------------------------------
(* C7 *)

\* C7: with n preferred times, the subject at 0-based position i of
\* study_load has time_slot preferred_times[i mod n] on each of the seven
\* days, wherever the priority sort puts it.
C7_RoundRobin ==
    (Succeeded /\ PreferredTimes # <<>>) =>
        /\ DOMAIN Schedule = Range(days)
        /\ \A d \in DOMAIN Schedule :
              \A a \in DOMAIN Schedule[d] :
                  Schedule[d][a].time_slot
                      = PreferredTimes[((Pos(Schedule[d][a].subject) - 1)
                                           % Len(PreferredTimes)) + 1]

\* A day on which the sort moved a subject away from the place its slot
\* belongs to: its slot is not the one of its place in the day's list.
C7_Witness ==
    /\ Succeeded
    /\ Len(PreferredTimes) >= 2
    /\ \E d \in DOMAIN Schedule :
          \E a \in DOMAIN Schedule[d] :
              /\ Pos(Schedule[d][a].subject) # a
              /\ Schedule[d][a].time_slot
                    # PreferredTimes[((a - 1) % Len(PreferredTimes)) + 1]

====
